---- MODULE Spec2Model ----
(***************************************************************************)
(* Lazy bit-wise logic adapters of bv-rs (src/src/adapter.rs).             *)
(*                                                                         *)
(* Two bit vectors A (id 1) and B (id 2) own the storage.  A view is a     *)
(* tree: its leaves are slices borrowed from the vectors, its inner nodes  *)
(* are the adapters BitsNot, BitsAnd, BitsOr and BitsXor.  The view under  *)
(* study is built step by step by the methods of BitsLogic and by          *)
(* bit_slice, and is queried through the Bits trait.                       *)
(*                                                                         *)
(* The operand types (BitVec, its slices, the Block words) live outside    *)
(* adapter.rs; they are modelled as the Bits / BitSliceable contract       *)
(* describes them: a query at or beyond the length panics, a block packs   *)
(* BlockBits bits with bit 0 least significant, a slice is re-based.       *)
(*                                                                         *)
(* Scope: A holds any bits and may be changed by its owner, B holds        *)
(* alternating bits; the first operand of a view is drawn from A, the      *)
(* second from B; a view nests at most MaxOps adapters, one of them        *)
(* binary; the steps slice by s.., the slicing law is stated for s..e too. *)
(***************************************************************************)
EXTENDS Integers, Sequences, FiniteSets

\* ----------------------------------------------------------------- bounds
MaxLen == 3        \* longest bit vector
BlockBits == 2     \* width of Bits::Block in bits
MaxOps == 2        \* most adapter nodes in one view

VARIABLES bv, view, out, mutated

vars == <<bv, view, out, mutated>>

Ids == {1, 2}

Min(a, b) == IF a <= b THEN a ELSE b

RECURSIVE Pow2(_)
Pow2(k) == IF k = 0 THEN 1 ELSE 2 * Pow2(k - 1)

\* ------------------------------------------------ outcomes of a Bits query
\* A query either returns a value or panics (a fatal bounds violation).
BitOk(b) == [ok |-> TRUE, bit |-> b]
BitPanic == [ok |-> FALSE, bit |-> FALSE]
BlockOk(w) == [ok |-> TRUE, block |-> w]
BlockPanic == [ok |-> FALSE, block |-> 0]

\* ------------------------------------------------ Block (unsigned, BlockBits wide)
BlockBit(w, k) == ((w \div Pow2(k)) % 2) = 1

RECURSIVE Pack(_, _)
\* the word whose bit k (k < n) is f[k]
Pack(f, n) == IF n = 0 THEN 0
              ELSE Pack(f, n - 1) + (IF f[n - 1] THEN Pow2(n - 1) ELSE 0)

BlockIdx == 0 .. (BlockBits - 1)

\* !w on an unsigned word of BlockBits bits
BlockNot(w) == (Pow2(BlockBits) - 1) - w
\* w1 & w2, w1 | w2, w1 ^ w2
BlockAnd(w1, w2) == Pack([k \in BlockIdx |-> BlockBit(w1, k) /\ BlockBit(w2, k)], BlockBits)
BlockOr(w1, w2) == Pack([k \in BlockIdx |-> BlockBit(w1, k) \/ BlockBit(w2, k)], BlockBits)
BlockXor(w1, w2) == Pack([k \in BlockIdx |-> BlockBit(w1, k) # BlockBit(w2, k)], BlockBits)

\* ------------------------------------------------ ranges
Range(s, e) == [kind |-> "Range", start |-> s, end |-> e]       \* s..e
RangeFrom(s) == [kind |-> "RangeFrom", start |-> s, end |-> 0]  \* s..

\* ------------------------------------------------ the operand capability
\* A slice borrowed from vector id: len bits starting at bit off of the vector.
BitSlice(id, off, len) == [kind |-> "slice", id |-> id, off |-> off, len |-> len]

SlicePanic == [kind |-> "panic"]

BitSlice_bit_len(s) == s.len

\* number of blocks needed for n bits
CeilDivNbits(n) == (n + BlockBits - 1) \div BlockBits

BitSlice_get_bit(s, position) ==
    IF position < s.len THEN BitOk(bv[s.id][s.off + position + 1]) ELSE BitPanic

BitSlice_get_block(s, position) ==
    IF position < CeilDivNbits(s.len)
    THEN BlockOk(Pack([k \in BlockIdx |->
                         /\ position * BlockBits + k < s.len
                         /\ bv[s.id][s.off + position * BlockBits + k + 1]],
                      BlockBits))
    ELSE BlockPanic

BitSlice_bit_slice(s, range) ==
    IF range.kind = "RangeFrom"
    THEN IF range.start <= s.len
         THEN BitSlice(s.id, s.off + range.start, s.len - range.start)
         ELSE SlicePanic
    ELSE IF range.start <= range.end /\ range.end <= s.len
         THEN BitSlice(s.id, s.off + range.start, range.end - range.start)
         ELSE SlicePanic

\* ------------------------------------------------ the adapters
\* struct BitsNot<T>(T)
BitsNot(t) == [kind |-> "not", op |-> t]
\* struct BitsAnd<T, U>(BitsBinOp<T, U>), and likewise BitsOr, BitsXor
BitsAnd(b) == [kind |-> "and", bin |-> b]
BitsOr(b) == [kind |-> "or", bin |-> b]
BitsXor(b) == [kind |-> "xor", bin |-> b]
\* struct BitsBinOp<T, U> { op1, op2, len }
BitsBinOp(t, u, n) == [op1 |-> t, op2 |-> u, len |-> n]

RECURSIVE Bits_bit_len(_)
RECURSIVE Bits_get_bit(_, _)
RECURSIVE Bits_get_block(_, _)
RECURSIVE BitSliceable_bit_slice(_, _)

\* variant: the length of the first operand, not the minimum
BitsBinOp_new_first(op1, op2) ==
    BitsBinOp(op1, op2, Bits_bit_len(op1))

BitsBinOp_new(op1, op2) ==
    BitsBinOp(op1, op2, Min(Bits_bit_len(op1), Bits_bit_len(op2)))

bit1(self, position) == Bits_get_bit(self.op1, position)
\* variant: the second accessor reads the first operand
bit2_first(self, position) == Bits_get_bit(self.op1, position)

bit2(self, position) == Bits_get_bit(self.op2, position)
\* variant: the first block accessor reads the second operand
block1_second(self, position) == Bits_get_block(self.op2, position)

block1(self, position) == Bits_get_block(self.op1, position)
block2(self, position) == Bits_get_block(self.op2, position)

\* impl Bits for BitsNot
\* variant: the operand's block count, not its bit count
BitsNot_bit_len_blocks(self) == CeilDivNbits(Bits_bit_len(self.op))

BitsNot_bit_len(self) == Bits_bit_len(self.op)

\* variant: the operand's bit, not complemented
BitsNot_get_bit_plain(self, position) ==
    LET b == Bits_get_bit(self.op, position)
    IN  IF b.ok THEN BitOk(b.bit) ELSE BitPanic

BitsNot_get_bit(self, position) ==
    LET b == Bits_get_bit(self.op, position)
    IN  IF b.ok THEN BitOk(~b.bit) ELSE BitPanic

BitsNot_get_block(self, position) ==
    LET w == Bits_get_block(self.op, position)
    IN  IF w.ok THEN BlockOk(BlockNot(w.block)) ELSE BlockPanic

\* impl Bits for BitsAnd.  The operator & evaluates both operands, so a
\* panic of either operand is the outcome of the query.
BitsAnd_bit_len(self) == self.bin.len

\* variant: the short-circuit && in place of &, which skips the second
\* operand when the first bit is false
BitsAnd_get_bit_lazy(self, position) ==
    LET b1 == bit1(self.bin, position)
        b2 == bit2(self.bin, position)
    IN  IF b1.ok /\ ~b1.bit THEN BitOk(FALSE)
        ELSE IF b1.ok /\ b2.ok THEN BitOk(b1.bit /\ b2.bit) ELSE BitPanic

BitsAnd_get_bit(self, position) ==
    LET b1 == bit1(self.bin, position)
        b2 == bit2(self.bin, position)
    IN  IF b1.ok /\ b2.ok THEN BitOk(b1.bit /\ b2.bit) ELSE BitPanic

\* variant: | in place of & on the block path
BitsAnd_get_block_or(self, position) ==
    LET w1 == block1(self.bin, position)
        w2 == block2(self.bin, position)
    IN  IF w1.ok /\ w2.ok THEN BlockOk(BlockOr(w1.block, w2.block)) ELSE BlockPanic

BitsAnd_get_block(self, position) ==
    LET w1 == block1(self.bin, position)
        w2 == block2(self.bin, position)
    IN  IF w1.ok /\ w2.ok THEN BlockOk(BlockAnd(w1.block, w2.block)) ELSE BlockPanic

\* impl Bits for BitsOr
BitsOr_bit_len(self) == self.bin.len

\* variant: & in place of |
BitsOr_get_bit_and(self, position) ==
    LET b1 == bit1(self.bin, position)
        b2 == bit2(self.bin, position)
    IN  IF b1.ok /\ b2.ok THEN BitOk(b1.bit /\ b2.bit) ELSE BitPanic

BitsOr_get_bit(self, position) ==
    LET b1 == bit1(self.bin, position)
        b2 == bit2(self.bin, position)
    IN  IF b1.ok /\ b2.ok THEN BitOk(b1.bit \/ b2.bit) ELSE BitPanic

BitsOr_get_block(self, position) ==
    LET w1 == block1(self.bin, position)
        w2 == block2(self.bin, position)
    IN  IF w1.ok /\ w2.ok THEN BlockOk(BlockOr(w1.block, w2.block)) ELSE BlockPanic

\* impl Bits for BitsXor
BitsXor_bit_len(self) == self.bin.len

\* variant: | in place of ^
BitsXor_get_bit_or(self, position) ==
    LET b1 == bit1(self.bin, position)
        b2 == bit2(self.bin, position)
    IN  IF b1.ok /\ b2.ok THEN BitOk(b1.bit \/ b2.bit) ELSE BitPanic

BitsXor_get_bit(self, position) ==
    LET b1 == bit1(self.bin, position)
        b2 == bit2(self.bin, position)
    IN  IF b1.ok /\ b2.ok THEN BitOk(b1.bit # b2.bit) ELSE BitPanic

BitsXor_get_block(self, position) ==
    LET w1 == block1(self.bin, position)
        w2 == block2(self.bin, position)
    IN  IF w1.ok /\ w2.ok THEN BlockOk(BlockXor(w1.block, w2.block)) ELSE BlockPanic

\* impl BitSliceable for BitsNot / BitsAnd / BitsOr / BitsXor.  A panic of
\* an operand's bit_slice unwinds through the adapter.
BitsNot_bit_slice(self, range) ==
    LET t == BitSliceable_bit_slice(self.op, range)
    IN  IF t.kind = "panic" THEN SlicePanic ELSE BitsNot(t)

BitsAnd_bit_slice(self, range) ==
    LET t == BitSliceable_bit_slice(self.bin.op1, range)
        u == BitSliceable_bit_slice(self.bin.op2, range)
    IN  IF t.kind = "panic" \/ u.kind = "panic" THEN SlicePanic
        ELSE BitsAnd(BitsBinOp_new(t, u))

\* variant: the sliced operands under the length cached before slicing
BitsOr_bit_slice_keeplen(self, range) ==
    LET t == BitSliceable_bit_slice(self.bin.op1, range)
        u == BitSliceable_bit_slice(self.bin.op2, range)
    IN  IF t.kind = "panic" \/ u.kind = "panic" THEN SlicePanic
        ELSE BitsOr(BitsBinOp(t, u, self.bin.len))

BitsOr_bit_slice(self, range) ==
    LET t == BitSliceable_bit_slice(self.bin.op1, range)
        u == BitSliceable_bit_slice(self.bin.op2, range)
    IN  IF t.kind = "panic" \/ u.kind = "panic" THEN SlicePanic
        ELSE BitsOr(BitsBinOp_new(t, u))

BitsXor_bit_slice(self, range) ==
    LET t == BitSliceable_bit_slice(self.bin.op1, range)
        u == BitSliceable_bit_slice(self.bin.op2, range)
    IN  IF t.kind = "panic" \/ u.kind = "panic" THEN SlicePanic
        ELSE BitsXor(BitsBinOp_new(t, u))

\* trait dispatch on the kind of the receiver
Bits_bit_len(v) ==
    CASE v.kind = "slice" -> BitSlice_bit_len(v)
      [] v.kind = "not" -> BitsNot_bit_len(v)
      [] v.kind = "and" -> BitsAnd_bit_len(v)
      [] v.kind = "or" -> BitsOr_bit_len(v)
      [] v.kind = "xor" -> BitsXor_bit_len(v)

Bits_get_bit(v, position) ==
    CASE v.kind = "slice" -> BitSlice_get_bit(v, position)
      [] v.kind = "not" -> BitsNot_get_bit(v, position)
      [] v.kind = "and" -> BitsAnd_get_bit(v, position)
      [] v.kind = "or" -> BitsOr_get_bit(v, position)
      [] v.kind = "xor" -> BitsXor_get_bit(v, position)

Bits_get_block(v, position) ==
    CASE v.kind = "slice" -> BitSlice_get_block(v, position)
      [] v.kind = "not" -> BitsNot_get_block(v, position)
      [] v.kind = "and" -> BitsAnd_get_block(v, position)
      [] v.kind = "or" -> BitsOr_get_block(v, position)
      [] v.kind = "xor" -> BitsXor_get_block(v, position)

BitSliceable_bit_slice(v, range) ==
    CASE v.kind = "slice" -> BitSlice_bit_slice(v, range)
      [] v.kind = "not" -> BitsNot_bit_slice(v, range)
      [] v.kind = "and" -> BitsAnd_bit_slice(v, range)
      [] v.kind = "or" -> BitsOr_bit_slice(v, range)
      [] v.kind = "xor" -> BitsXor_bit_slice(v, range)

\* Bits::block_len, the provided method: blocks needed for bit_len bits
Bits_block_len(v) == CeilDivNbits(Bits_bit_len(v))

\* trait BitsLogic
bits_not(self) == BitsNot(self)
bits_and(self, other) == BitsAnd(BitsBinOp_new(self, other))
bits_or(self, other) == BitsOr(BitsBinOp_new(self, other))
bits_xor(self, other) == BitsXor(BitsBinOp_new(self, other))

\* ------------------------------------------------ the state machine
IsBin(v) == v.kind \in {"and", "or", "xor"}

RECURSIVE Ops(_)
\* adapter nodes of a view
Ops(v) == CASE v.kind = "slice" -> 0
            [] v.kind = "not" -> 1 + Ops(v.op)
            [] IsBin(v) -> 1 + Ops(v.bin.op1) + Ops(v.bin.op2)

RECURSIVE HasBin(_)
HasBin(v) == CASE v.kind = "slice" -> FALSE
               [] v.kind = "not" -> HasBin(v.op)
               [] IsBin(v) -> TRUE

BitSeqs == UNION {[1 .. n -> BOOLEAN] : n \in 0 .. MaxLen}

\* the contents of B: true, false, true, ... as in the vectors of the tests
Alternating == {[i \in 1 .. n |-> i % 2 = 1] : n \in 0 .. MaxLen}

\* the whole of vector id, borrowed
Whole(id) == BitSlice(id, 0, Len(bv[id]))

\* second operands offered to the binary constructors: B, a tail of B, NOT B
Others == {BitSlice(2, s, Len(bv[2]) - s) : s \in 0 .. Len(bv[2])}
            \cup {bits_not(Whole(2))}

\* the ranges the steps slice by (s..); AllRanges adds s..e
Ranges == {RangeFrom(s) : s \in 0 .. MaxLen}
AllRanges == Ranges \cup {Range(s, e) : s \in 0 .. MaxLen, e \in 0 .. MaxLen}

Positions == 0 .. MaxLen
BlockPositions == 0 .. CeilDivNbits(MaxLen)

NoOut == [op |-> "none", pos |-> 0, ok |-> TRUE, bit |-> FALSE, block |-> 0, len |-> 0]

\* A is any vector, B one with alternating bits; the view starts as all of A.
Init ==
    /\ bv \in [Ids -> BitSeqs]
    /\ bv[2] \in Alternating
    /\ view = Whole(1)
    /\ out = NoOut
    /\ mutated = FALSE

\* A view holds at most MaxOps adapters, at most one of them binary.
CanWrap(v, other) == /\ Ops(v) + Ops(other) < MaxOps
                     /\ ~HasBin(v)

\* The caller makes one call at a time: out holds the result of the last
\* query until the caller has taken it (Return).
Idle == out.op = "none"

DoBitsNot ==
    /\ Idle
    /\ Ops(view) < MaxOps
    /\ view' = bits_not(view)
    /\ out' = NoOut
    /\ mutated' = FALSE
    /\ UNCHANGED bv

DoBitsAnd ==
    \E other \in Others :
        /\ Idle
        /\ CanWrap(view, other)
        /\ view' = bits_and(view, other)
        /\ out' = NoOut
        /\ mutated' = FALSE
        /\ UNCHANGED bv

DoBitsOr ==
    \E other \in Others :
        /\ Idle
        /\ CanWrap(view, other)
        /\ view' = bits_or(view, other)
        /\ out' = NoOut
        /\ mutated' = FALSE
        /\ UNCHANGED bv

DoBitsXor ==
    \E other \in Others :
        /\ Idle
        /\ CanWrap(view, other)
        /\ view' = bits_xor(view, other)
        /\ out' = NoOut
        /\ mutated' = FALSE
        /\ UNCHANGED bv

\* view.bit_slice(range); a range that makes an operand panic ends the run
DoBitSlice ==
    \E range \in Ranges :
        LET s == BitSliceable_bit_slice(view, range)
        IN  /\ Idle
            /\ s.kind # "panic"
            /\ view' = s
            /\ out' = [NoOut EXCEPT !.op = "bit_slice", !.pos = range.start]
            /\ mutated' = FALSE
            /\ UNCHANGED bv

DoBitLen ==
    /\ Idle
    /\ out' = [NoOut EXCEPT !.op = "bit_len", !.len = Bits_bit_len(view)]
    /\ UNCHANGED <<bv, view, mutated>>

DoGetBit ==
    \E position \in Positions :
        LET b == Bits_get_bit(view, position)
        IN  /\ Idle
            /\ out' = [NoOut EXCEPT !.op = "get_bit", !.pos = position,
                                     !.ok = b.ok, !.bit = b.bit]
            /\ UNCHANGED <<bv, view, mutated>>

DoGetBlock ==
    \E position \in BlockPositions :
        LET w == Bits_get_block(view, position)
        IN  /\ Idle
            /\ out' = [NoOut EXCEPT !.op = "get_block", !.pos = position,
                                     !.ok = w.ok, !.block = w.block]
            /\ UNCHANGED <<bv, view, mutated>>

\* The owner of A changes one of its bits while the view borrows it; the
\* length is untouched.  mutated: A has changed since the view was built.
Mutate ==
    \E i \in 1 .. Len(bv[1]) :
        /\ Idle
        /\ bv' = [bv EXCEPT ![1][i] = ~bv[1][i]]
        /\ mutated' = TRUE
        /\ out' = NoOut
        /\ UNCHANGED view

\* the caller takes the result and goes on
Return ==
    /\ ~Idle
    /\ out' = NoOut
    /\ UNCHANGED <<bv, view, mutated>>

Next ==
    \/ DoBitsNot
    \/ DoBitsAnd
    \/ DoBitsOr
    \/ DoBitsXor
    \/ DoBitSlice
    \/ DoBitLen
    \/ DoGetBit
    \/ DoGetBlock
    \/ Mutate
    \/ Return

Spec == Init /\ [][Next]_vars

\* ------------------------------------------------ reference semantics
\* The bits a view denotes, read straight from the vectors: the truth table
\* of each adapter applied position by position, over the shorter operand.
RECURSIVE RefLen(_)
RefLen(v) == CASE v.kind = "slice" -> v.len
               [] v.kind = "not" -> RefLen(v.op)
               [] IsBin(v) -> Min(RefLen(v.bin.op1), RefLen(v.bin.op2))

RECURSIVE RefBit(_, _)
RefBit(v, p) == CASE v.kind = "slice" -> bv[v.id][v.off + p + 1]
                  [] v.kind = "not" -> ~RefBit(v.op, p)
                  [] v.kind = "and" -> RefBit(v.bin.op1, p) /\ RefBit(v.bin.op2, p)
                  [] v.kind = "or" -> RefBit(v.bin.op1, p) \/ RefBit(v.bin.op2, p)
                  [] v.kind = "xor" -> RefBit(v.bin.op1, p) # RefBit(v.bin.op2, p)

\* the truth table of a binary adapter
Table(kind, a, b) == CASE kind = "and" -> a /\ b
                       [] kind = "or" -> a \/ b
                       [] kind = "xor" -> a # b

\* the constructor of the adapter of a kind
Rebuild(kind, t, u) == CASE kind = "and" -> bits_and(t, u)
                         [] kind = "or" -> bits_or(t, u)
                         [] kind = "xor" -> bits_xor(t, u)

InRange(v) == 0 .. (Bits_bit_len(v) - 1)

\* two views report the same length and the same bit at every position
SameBits(v, w) ==
    /\ Bits_bit_len(v) = Bits_bit_len(w)
    /\ \A p \in InRange(v) : /\ Bits_get_bit(v, p).ok
                              /\ Bits_get_bit(v, p) = Bits_get_bit(w, p)

\* ------------------------------------------------ claims
Len1(v) == Bits_bit_len(v.bin.op1)
Len2(v) == Bits_bit_len(v.bin.op2)

\* C1: an AND, OR or XOR view reports the minimum of its operands' lengths,
\* from its construction on and at every bit_len query.
Thm_C1_LenIsMin ==
    IsBin(view) =>
        /\ Bits_bit_len(view) = Min(Len1(view), Len2(view))
        /\ (out.op = "bit_len" => out.len = Min(Len1(view), Len2(view)))

Wit_C1 ==
    /\ IsBin(view)
    /\ Len1(view) > Len2(view)
    /\ out.op = "bit_len"
    /\ out.len > 0

\* C2: below the view's length, get_bit on an AND / OR / XOR view is the
\* conjunction / disjunction / exclusive-or of the operands' bits.
Thm_C2_BinBit ==
    (IsBin(view) /\ out.op = "get_bit" /\ out.pos < Min(Len1(view), Len2(view))) =>
        /\ out.ok
        /\ out.bit = Table(view.kind, Bits_get_bit(view.bin.op1, out.pos).bit,
                                       Bits_get_bit(view.bin.op2, out.pos).bit)

Wit_C2 ==
    /\ view.kind = "xor"
    /\ Len1(view) # Len2(view)
    /\ out.op = "get_bit"
    /\ out.ok
    /\ out.bit
    /\ out.pos > 0

\* C3: a NOT view has its operand's length and, below it, the complement of
\* each of its operand's bits.
Thm_C3_Not ==
    view.kind = "not" =>
        /\ Bits_bit_len(view) = Bits_bit_len(view.op)
        /\ (out.op = "bit_len" => out.len = Bits_bit_len(view.op))
        /\ (out.op = "get_bit" /\ out.pos < Bits_bit_len(view.op)) =>
               /\ out.ok
               /\ out.bit = ~Bits_get_bit(view.op, out.pos).bit

Wit_C3 ==
    /\ view.kind = "not"
    /\ view.op.kind = "slice"
    /\ view.op.len = MaxLen
    /\ out.op = "get_bit"
    /\ out.pos = MaxLen - 1
    /\ out.ok
    /\ out.bit

\* C4: for every block i of a NOT / AND / OR / XOR view, bit k of
\* get_block(i) is get_bit(i * BlockBits + k), for every position of the
\* block that lies in the view.
Thm_C4_BlockBit ==
    (view.kind # "slice" /\ out.op = "get_block" /\ out.pos < Bits_block_len(view)) =>
        /\ out.ok
        /\ \A k \in BlockIdx :
               out.pos * BlockBits + k < Bits_bit_len(view) =>
                   /\ Bits_get_bit(view, out.pos * BlockBits + k).ok
                   /\ BlockBit(out.block, k)
                          = Bits_get_bit(view, out.pos * BlockBits + k).bit

Wit_C4 ==
    /\ IsBin(view)
    /\ Len1(view) # Len2(view)
    /\ Bits_bit_len(view) % BlockBits # 0
    /\ out.op = "get_block"
    /\ out.ok
    /\ out.pos = Bits_block_len(view) - 1
    /\ out.block # 0

\* slicing v over r against the adapter rebuilt over the sliced operands
SliceRule(v, r) ==
    CASE IsBin(v) ->
            LET t == BitSliceable_bit_slice(v.bin.op1, r)
                u == BitSliceable_bit_slice(v.bin.op2, r)
                s == BitSliceable_bit_slice(v, r)
            IN  (t.kind # "panic" /\ u.kind # "panic") =>
                    /\ s.kind = v.kind
                    /\ SameBits(s, Rebuild(v.kind, t, u))
      [] v.kind = "not" ->
            LET t == BitSliceable_bit_slice(v.op, r)
                s == BitSliceable_bit_slice(v, r)
            IN  t.kind # "panic" =>
                    /\ s.kind = "not"
                    /\ SameBits(s, bits_not(t))
      [] OTHER -> TRUE

\* C5: slicing an AND / OR / XOR view over a range valid on both operands
\* gives the length and bits of the same adapter built over the two sliced
\* operands; slicing a NOT view gives those of NOT of the sliced operand.
\* Stated for the states with no result pending, which hold every view.
Thm_C5_SliceCommutes == Idle => \A r \in AllRanges : SliceRule(view, r)

Wit_C5 ==
    /\ IsBin(view)
    /\ out.op = "bit_slice"
    /\ out.pos > 0
    /\ Len1(view) # Len2(view)
    /\ Bits_bit_len(view) > 0

\* C6: a binary view over the tails A[s1..] and B[s2..] has length
\* min(len(A) - s1, len(B) - s2) and its bit p is the operator applied to
\* A's bit p + s1 and B's bit p + s2.
Thm_C6_Offsets ==
    (IsBin(view) /\ view.bin.op1.kind = "slice" /\ view.bin.op2.kind = "slice") =>
        LET o1 == view.bin.op1
            o2 == view.bin.op2
            m == Min(Len(bv[o1.id]) - o1.off, Len(bv[o2.id]) - o2.off)
        IN  /\ Bits_bit_len(view) = m
            /\ (out.op = "get_bit" /\ out.pos < m) =>
                   /\ out.ok
                   /\ out.bit = Table(view.kind, bv[o1.id][out.pos + o1.off + 1],
                                                  bv[o2.id][out.pos + o2.off + 1])

Wit_C6 ==
    /\ view.kind = "and"
    /\ view.bin.op1.kind = "slice"
    /\ view.bin.op2.kind = "slice"
    /\ view.bin.op1.off > 0
    /\ view.bin.op2.off > view.bin.op1.off
    /\ out.op = "get_bit"
    /\ out.ok
    /\ out.bit

\* both sides of De Morgan's law over x and y, against a get_bit result
DeMorgan(x, y, pos, isQuery, bit, ok) ==
    LET l == bits_not(bits_and(x, y))
        r == bits_or(bits_not(x), bits_not(y))
        m == Min(Bits_bit_len(x), Bits_bit_len(y))
    IN  /\ Bits_bit_len(l) = m
        /\ Bits_bit_len(r) = m
        /\ (isQuery /\ pos < m) =>
               /\ ok
               /\ Bits_get_bit(l, pos) = BitOk(bit)
               /\ Bits_get_bit(r, pos) = BitOk(bit)

\* C7: NOT(A AND B) and (NOT A) OR (NOT B) report the same length
\* m = min(len(A), len(B)) and the same bit at every position below m.
Thm_C7_DeMorgan ==
    /\ (view.kind = "not" /\ view.op.kind = "and") =>
           DeMorgan(view.op.bin.op1, view.op.bin.op2,
                    out.pos, out.op = "get_bit", out.bit, out.ok)
    /\ (view.kind = "or" /\ view.bin.op1.kind = "not" /\ view.bin.op2.kind = "not") =>
           DeMorgan(view.bin.op1.op, view.bin.op2.op,
                    out.pos, out.op = "get_bit", out.bit, out.ok)

Wit_C7 ==
    /\ view.kind = "not"
    /\ view.op.kind = "and"
    /\ Len1(view.op) # Len2(view.op)
    /\ out.op = "get_bit"
    /\ out.pos > 0
    /\ out.ok
    /\ ~out.bit

\* C8: NOT(NOT A) reports A's length and, below it, A's bit at every
\* position.
Thm_C8_DoubleNot ==
    (view.kind = "not" /\ view.op.kind = "not") =>
        LET a == view.op.op
        IN  /\ Bits_bit_len(view) = Bits_bit_len(a)
            /\ (out.op = "get_bit" /\ out.pos < Bits_bit_len(a)) =>
                   /\ out.ok
                   /\ BitOk(out.bit) = Bits_get_bit(a, out.pos)

Wit_C8 ==
    /\ view.kind = "not"
    /\ view.op.kind = "not"
    /\ out.op = "get_bit"
    /\ out.pos > 0
    /\ out.ok
    /\ out.bit

\* C9: a query at or beyond the length of a view panics, as it does on the
\* operand that is too short: get_bit(p) for p >= len (the shorter operand's
\* length for a binary view), get_block(i) for i beyond the last block; a
\* binary view returns a value only if both operands do.
Thm_C9_OutOfRange ==
    /\ (out.op = "get_bit" /\ out.pos >= RefLen(view)) => ~out.ok
    /\ (out.op = "get_block" /\ out.pos >= CeilDivNbits(RefLen(view))) => ~out.ok
    /\ (out.op = "get_bit" /\ IsBin(view)) =>
           out.ok = (/\ Bits_get_bit(view.bin.op1, out.pos).ok
                     /\ Bits_get_bit(view.bin.op2, out.pos).ok)
    /\ (out.op = "get_bit" /\ view.kind = "not") =>
           out.ok = Bits_get_bit(view.op, out.pos).ok

Wit_C9 ==
    /\ view.kind = "and"
    /\ out.op = "get_bit"
    /\ ~out.ok
    /\ out.pos < Len1(view)
    /\ Bits_get_bit(view.bin.op1, out.pos) = BitOk(FALSE)

\* C10: every get_bit and get_block result is the adapters' truth tables
\* applied to the bits the vectors hold when the query is made, also after A
\* has been changed since the view was built: nothing is cached.
Thm_C10_NoCache ==
    /\ (out.op = "get_bit" /\ out.pos < RefLen(view)) =>
           /\ out.ok
           /\ out.bit = RefBit(view, out.pos)
    /\ (out.op = "get_block" /\ out.pos < CeilDivNbits(RefLen(view))) =>
           /\ out.ok
           /\ \A k \in BlockIdx :
                  out.pos * BlockBits + k < RefLen(view) =>
                      BlockBit(out.block, k) = RefBit(view, out.pos * BlockBits + k)

Wit_C10 ==
    /\ mutated
    /\ IsBin(view)
    /\ out.op = "get_block"
    /\ out.pos > 0
    /\ out.ok
    /\ out.block # 0

====
